---- MODULE Spec2Model ----
(***************************************************************************)
(* bigmler: the local ensemble prediction engine of bigmler.py (predict).  *)
(* One run of predict is a sequence of steps; the per-model prediction     *)
(* files live on disk and survive the end (or the death) of a run, every   *)
(* other variable is the state of the running process.                     *)
(***************************************************************************)
EXTENDS Integers, Sequences, FiniteSets, TLC

\* ------------------------------------------------------------------ bounds
MaxModels == 3
MaxRows == 2
MaxSeed == 2
MaxCols == 3
MaxInvocations == 4

Unset == 0 - 1

VARIABLES
    \* the arguments of predict and the test file
    models,            \* ordered list of model references
    max_models,        \* maximum group size (args.max_batch_models)
    nrows,             \* data rows of the test file
    test_set_header,   \* whether the first line of the test file is a header
    remote,            \* remote predictions
    seed,              \* selects the scoring table of the models
    failing,           \* the <<model, row>> pairs whose scoring raises an error
    \* the running process
    pc,
    mode,              \* "none", "remote", "combined", "batch"
    resume,
    number_of_tests,
    reader_pos,        \* data rows already consumed from test_reader
    models_splits,
    input_data_list,
    total_votes,
    votes,
    models_count,
    split_index,       \* position of the group loop (line 233)
    model_index,       \* position of the loop over the models of a group
    complete_models,
    predictions_files,
    progress,          \* values passed to draw_progress_bar
    output,            \* records written to the combined output
    \* durable storage: the per-model prediction files
    files,             \* models that have a prediction file
    content,           \* model -> rows of its prediction file
    \* history of the run, for the statements below
    scored,            \* models scored by the current run
    ckpt_seen,         \* models checkpointed by the current run
    ckpt_ok,           \* models whose checkpoint succeeded in the current run
    ckpt_failed,       \* some checkpoint of the current run failed
    complete_at_start, \* models whose file was complete when the run started
    partial_at_start,  \* models whose file was incomplete when the run started
    prev,              \* what preceded the current run
    \* the model's field schema and the lines of the test file
    fields,            \* column number -> field name
    objective_field,   \* column number of the objective field
    file_header,       \* the first line of the test file, when it is a header
    test_rows,         \* the data rows; a cell holds its column number
    \* the schema reconciliation of the running process
    headers,
    exclude,
    warned,            \* the warning of lines 136-141 was printed
    processed,         \* the rows after the del loop, in file order
    \* the invocations of main and the command log (.bigmler)
    command_log,       \* the lines of the command log, oldest first
    invocations,       \* invocations of main so far
    last_args,         \* the arguments of the latest invocation
    replayed,          \* the command the latest invocation resumed
    directory_log,     \* the directory stack (.bigmler_dir_stack): the invocation
                       \* that wrote each line, oldest first
    parsed,            \* parse_args returned in the latest invocation
    \* the delete mode of main
    delete_option,     \* command_args.delete
    data_given,        \* a training set, test set, source or dataset is given
    delete_list_arg,   \* the ids of --delete-list
    delete_file,       \* "none", "missing" or "present"
    tag_options,       \* the tag options given
    tagged,            \* the kinds that have a remote resource with the tag
    position,          \* where main is after the options are parsed
    delete_list,       \* the list assembled so far
    tag_index,         \* the tag option main is at
    delete_calls,      \* calls of delete so far
    deleted,           \* the resources deleted remotely
    output_calls,      \* calls of compute_output so far
    \* compute_output: its arguments
    number_of_models,  \* args.number_of_models, the models left to create
    requested,         \* args.number_of_models when compute_output was called
    max_parallel_models,
    evaluate,          \* args.evaluate
    log_file,          \* a log file is given (args.log_file)
    clear_logs,        \* args.clear_logs
    \* what the earlier run left in the output directory
    source_found,
    dataset_found,
    models_found,      \* how many models the earlier run created
    evaluation_found,
    log_lines,         \* lines of the log file
    \* compute_output: the running process
    stage,
    resuming,          \* the resume variable of compute_output
    log,               \* "None" or "open"
    model_ids,
    models_list,       \* the models variable of compute_output
    aliased,           \* models and model_ids are one and the same list
    last_model,
    loop_index,        \* i of the creation loop (line 530)
    model_status,      \* model -> "none", "unfinished", "finished"
    creates,           \* kind of resource -> create calls issued
    consulted,         \* the stages whose checkpoint was consulted, in order
    failed_stages,     \* the stages whose checkpoint failed
    taken              \* the stages whose resource is the earlier run's

args == <<models, max_models, nrows, test_set_header, remote, seed, failing>>
process == <<pc, mode, resume, number_of_tests, reader_pos, models_splits,
             input_data_list, total_votes, votes, models_count, split_index,
             model_index, complete_models, predictions_files, progress, output>>
disk == <<files, content>>
history == <<scored, ckpt_seen, ckpt_ok, ckpt_failed, complete_at_start,
             partial_at_start, prev>>
schema == <<fields, objective_field, file_header, test_rows, headers, exclude,
            warned, processed>>
deletion == <<delete_option, data_given, delete_list_arg, delete_file, tag_options,
              tagged, position, delete_list, tag_index, delete_calls, deleted,
              output_calls>>
shell == <<command_log, invocations, last_args, replayed, directory_log, parsed,
           deletion>>
options == <<requested, max_parallel_models, evaluate, log_file, clear_logs>>
earlier == <<source_found, dataset_found, models_found, evaluation_found>>
creation == <<number_of_models, model_ids, models_list, aliased, last_model,
              loop_index, model_status>>
resources == <<creates, consulted, failed_stages, taken>>
session == <<shell, options, earlier, creation, resources, log_lines, stage,
             resuming, log>>
vars == <<args, process, disk, history, schema, session>>

\* ------------------------------------------------------------ python lists
Min(a, b) == IF a < b THEN a ELSE b

\* range(start, stop, step) for step > 0
PyRange(start, stop, step) ==
    IF stop <= start THEN <<>>
    ELSE [k \in 1..((stop - start + step - 1) \div step) |-> start + (k - 1) * step]

\* s[a:b] for 0 <= a <= b (0-based, the end clipped to the list)
PySlice(s, a, b) == SubSeq(s, a + 1, Min(b, Len(s)))

RECURSIVE Flatten(_)
Flatten(ss) == IF ss = <<>> THEN <<>> ELSE Head(ss) \o Flatten(Tail(ss))

Range(s) == {s[i] : i \in DOMAIN s}

\* ------------------------------------------------------- supplied scoring
\* The single-model scoring capability: a fixed table per seed.
ScoreCode(s) == (49 + s * 2731) % 65536

Bit(n, k) == (n \div (2 ^ k)) % 2

Predict(m, r) == IF Bit(ScoreCode(seed), (m - 1) * 4 + (r - 1)) = 1 THEN "yes" ELSE "no"

\* ------------------------------------------------------ the vote combiner
Count(bundle, v) == Cardinality({i \in DOMAIN bundle : bundle[i] = v})

FirstIndex(bundle, v) == CHOOSE i \in DOMAIN bundle :
    bundle[i] = v /\ \A k \in DOMAIN bundle : bundle[k] = v => i <= k

\* plurality: the highest count, ties to the value that occurs first
Combine(bundle) ==
    LET best == CHOOSE i \in DOMAIN bundle :
            /\ i = FirstIndex(bundle, bundle[i])
            /\ \A k \in DOMAIN bundle :
                   \/ Count(bundle, bundle[k]) < Count(bundle, bundle[i])
                   \/ /\ Count(bundle, bundle[k]) = Count(bundle, bundle[i])
                      /\ i <= FirstIndex(bundle, bundle[k])
    IN  bundle[best]

\* MultiModel(models).predict: one already-combined prediction for a row
MultiModelPredict(ms, r) == Combine([k \in DOMAIN ms |-> Predict(ms[k], r)])

\* ------------------------------------------------------------ chunk split
\* the slice one short: models[index:(index + max_models - 1)]
ModelsSplitsShortSlice(ms, mx) ==
    LET idx == PyRange(0, Len(ms), mx)
    IN  [k \in DOMAIN idx |-> PySlice(ms, idx[k], idx[k] + mx - 1)]

ModelsSplits(ms, mx) ==
    LET idx == PyRange(0, Len(ms), mx)
    IN  [k \in DOMAIN idx |-> PySlice(ms, idx[k], idx[k] + mx)]

\* the threshold compared with <= instead of <
CombinedModeLeq == Len(models) <= max_models

CombinedMode == Len(models) < max_models

\* ------------------------------------------------------------- checkpoint
FileNumberOfLines == nrows + (IF test_set_header THEN 1 ELSE 0)

\* the header line counted as a test
NumberOfTestsWithHeader == FileNumberOfLines

NumberOfTests == FileNumberOfLines - (IF test_set_header THEN 1 ELSE 0)

\* are_predictions_created: the file exists and holds the expected rows
ArePredictionsCreated(m, n) == m \in files /\ Len(content[m]) = n

\* a file that fails its checkpoint is stale and is discarded
FilesAfterCheckpoint(m, n) == IF ArePredictionsCreated(m, n) THEN files ELSE files \ {m}

ContentAfterCheckpoint(m, n) ==
    IF ArePredictionsCreated(m, n) THEN content ELSE [content EXCEPT ![m] = <<>>]

\* ------------------------------------------------- reading the vote files
\* rows of the longest file among ms
VotesLen(ms) ==
    LET lens == {Len(content[ms[k]]) : k \in DOMAIN ms}
    IN  IF lens = {} THEN 0 ELSE CHOOSE n \in lens : \A l \in lens : l <= n

RECURSIVE RowVotes(_, _)
RowVotes(ms, r) ==
    IF ms = <<>> THEN <<>>
    ELSE (IF Head(ms) \in files /\ r <= Len(content[Head(ms)])
          THEN <<content[Head(ms)][r]>> ELSE <<>>) \o RowVotes(Tail(ms), r)

\* MultiModel.batch_votes: per row, the predictions of the models in order
BatchVotes(ms) == [r \in 1..VotesLen(ms) |-> RowVotes(ms, r)]

\* combine_votes: rebuild the bundles from the files and combine each
CombineVotes(ms) == [r \in 1..VotesLen(ms) |-> Combine(RowVotes(ms, r))]

\* --------------------------------------------------------------- the runs
\* scoring row r against model m signals an input-mismatch error
ScoringFails(m, r) == <<m, r>> \in failing

Idle ==
    /\ pc = "idle"
    /\ mode = "none"
    /\ resume = FALSE
    /\ number_of_tests = Unset
    /\ reader_pos = 0
    /\ models_splits = <<>>
    /\ input_data_list = <<>>
    /\ total_votes = <<>>
    /\ votes = <<>>
    /\ models_count = 0
    /\ split_index = 0
    /\ model_index = 0
    /\ complete_models = <<>>
    /\ predictions_files = <<>>
    /\ progress = <<>>
    /\ output = <<>>

\* the state of a process that is not running
Stopped ==
    /\ pc' = "idle"
    /\ mode' = "none"
    /\ resume' = FALSE
    /\ number_of_tests' = Unset
    /\ reader_pos' = 0
    /\ models_splits' = <<>>
    /\ input_data_list' = <<>>
    /\ total_votes' = <<>>
    /\ votes' = <<>>
    /\ models_count' = 0
    /\ split_index' = 0
    /\ model_index' = 0
    /\ complete_models' = <<>>
    /\ predictions_files' = <<>>
    /\ progress' = <<>>
    /\ output' = <<>>

ArgsInit ==
    /\ \E n \in 1..MaxModels : models = [k \in 1..n |-> k]
    /\ max_models \in 1..(MaxModels + 1)
    /\ nrows \in 0..MaxRows
    /\ test_set_header \in BOOLEAN
    /\ seed \in 0..MaxSeed

HistoryInit ==
    /\ scored = {}
    /\ ckpt_seen = {}
    /\ ckpt_ok = {}
    /\ ckpt_failed = FALSE
    /\ complete_at_start = {}
    /\ partial_at_start = {}
    /\ prev = "none"

DiskInit ==
    /\ files = {}
    /\ content = [m \in Range(models) |-> <<>>]

\* no command of the invocation; n numbers the invocations
NoCommand == [resume |-> FALSE, clear_logs |-> FALSE, stack_level |-> 0, n |-> 0]

\* the kinds of resources a tag option lists, in the order of lines 936-940
ResourceKinds == <<"source", "dataset", "model", "prediction", "evaluation">>

\* the tag options in the order main looks at them (lines 934-961)
TagOptions == <<"all", "source", "dataset", "model", "prediction", "evaluation">>

\* main has not looked at the delete option
DeletionStart ==
    /\ position = "parsed"
    /\ delete_list = <<>>
    /\ tag_index = 1
    /\ delete_calls = 0
    /\ deleted = {}
    /\ output_calls = 0

\* an invocation without the delete option and without data
DeletionNone ==
    /\ delete_option = FALSE
    /\ data_given = FALSE
    /\ delete_list_arg = <<>>
    /\ delete_file = "none"
    /\ tag_options = {}
    /\ tagged = {}
    /\ DeletionStart

ShellInit ==
    /\ command_log = <<>>
    /\ invocations = 0
    /\ last_args = NoCommand
    /\ replayed = NoCommand
    /\ directory_log = <<>>
    /\ parsed = TRUE
    /\ DeletionNone

Kinds == {"source", "dataset", "model", "evaluation"}

OutputIdle ==
    /\ stage = "idle"
    /\ log = "None"
    /\ model_ids = <<>>
    /\ models_list = <<>>
    /\ aliased = FALSE
    /\ last_model = 0
    /\ loop_index = 0
    /\ model_status = [m \in 1..MaxModels |-> "none"]
    /\ creates = [k \in Kinds |-> 0]
    /\ consulted = <<>>
    /\ failed_stages = {}
    /\ taken = {}

OutputNone ==
    /\ number_of_models = 1
    /\ requested = 1
    /\ max_parallel_models = 1
    /\ evaluate = FALSE
    /\ log_file = FALSE
    /\ clear_logs = FALSE
    /\ source_found = FALSE
    /\ dataset_found = FALSE
    /\ models_found = 0
    /\ evaluation_found = FALSE
    /\ log_lines = 0
    /\ resuming = FALSE
    /\ OutputIdle

SessionInit ==
    /\ ShellInit
    /\ OutputNone

\* a test file whose columns are the model's input fields
SchemaInit ==
    /\ fields = <<>>
    /\ objective_field = 0
    /\ file_header = <<>>
    /\ test_rows = <<>>
    /\ headers = <<>>
    /\ exclude = <<>>
    /\ warned = FALSE
    /\ processed = <<>>

Init ==
    /\ ArgsInit
    /\ remote = FALSE
    /\ failing = {}
    /\ SchemaInit
    /\ SessionInit
    /\ Idle
    /\ DiskInit
    /\ HistoryInit

Group == models_splits[split_index]

\* main, lines 742-771 and 827: a run is resumed exactly when it replays an
\* earlier command in the output directory that command left behind; a first
\* run starts in a directory of its own.
ResumeArg == prev # "none"

\* predict, lines 113-159 and 203-206: the test file and the output are
\* opened; a resumed run counts the expected rows.
StartPredict ==
    /\ pc = "idle"
    /\ resume' = ResumeArg
    /\ number_of_tests' = IF ResumeArg THEN NumberOfTests ELSE Unset
    /\ reader_pos' = 0
    /\ output' = <<>>
    /\ pc' = IF remote THEN "remote" ELSE "local"
    /\ mode' = IF remote THEN "remote" ELSE "none"
    /\ model_index' = IF remote THEN 1 ELSE 0
    /\ scored' = {}
    /\ ckpt_seen' = {}
    /\ ckpt_ok' = {}
    /\ ckpt_failed' = FALSE
    /\ complete_at_start' = {m \in files : Len(content[m]) = nrows}
    /\ partial_at_start' = {m \in files : Len(content[m]) # nrows}
    /\ UNCHANGED <<args, session, schema, disk, prev, models_splits, input_data_list, total_votes,
                   votes, models_count, split_index, complete_models,
                   predictions_files, progress>>

\* lines 209-210
CombinedStart ==
    /\ pc = "local"
    /\ CombinedMode
    /\ mode' = "combined"
    /\ complete_models' = models
    /\ pc' = "combined"
    /\ UNCHANGED <<args, session, schema, disk, history, resume, number_of_tests, reader_pos,
                   models_splits, input_data_list, total_votes, votes, models_count,
                   split_index, model_index, predictions_files, progress, output>>

\* lines 211-218
CombinedRow ==
    /\ pc = "combined"
    /\ IF reader_pos < nrows
       THEN IF \E k \in DOMAIN complete_models :
                   ScoringFails(complete_models[k], reader_pos + 1)
            THEN /\ pc' = "failed"
                 /\ reader_pos' = reader_pos + 1
                 /\ UNCHANGED output
            ELSE /\ output' = Append(output, MultiModelPredict(complete_models, reader_pos + 1))
                 /\ reader_pos' = reader_pos + 1
                 /\ pc' = pc
       ELSE /\ pc' = "done"
            /\ UNCHANGED <<output, reader_pos>>
    /\ UNCHANGED <<args, session, schema, disk, history, mode, resume, number_of_tests, models_splits,
                   input_data_list, total_votes, votes, models_count, split_index,
                   model_index, complete_models, predictions_files, progress>>

\* the first row left in the reader is not kept
ReadInputDataSkipFirst == [r \in 1..(nrows - reader_pos - 1) |-> reader_pos + 1 + r]

\* lines 225-230: the rows left in test_reader, in file order
ReadInputData == [r \in 1..(nrows - reader_pos) |-> reader_pos + r]

\* lines 222-232
BatchStart ==
    /\ pc = "local"
    /\ ~CombinedMode
    /\ mode' = "batch"
    /\ models_splits' = ModelsSplits(models, max_models)
    /\ input_data_list' = ReadInputData
    /\ reader_pos' = nrows
    /\ total_votes' = <<>>
    /\ models_count' = 0
    /\ split_index' = 1
    /\ pc' = "split"
    /\ UNCHANGED <<args, session, schema, disk, history, resume, number_of_tests, votes, model_index,
                   complete_models, predictions_files, progress, output>>

\* the loop ends before the last group
GroupsLeftButLast == split_index < Len(models_splits)

\* line 233: for models_split in models_splits
GroupsLeft == split_index <= Len(models_splits)

\* the group loop without the checkpoints of a resumed run
SplitLoopNoCheckpoint ==
    /\ pc = "split"
    /\ IF GroupsLeft
       THEN /\ pc' = "retrieve"
            /\ model_index' = 1
       ELSE /\ pc' = "combine"
            /\ UNCHANGED model_index
    /\ UNCHANGED <<args, session, schema, disk, history, mode, resume, number_of_tests, reader_pos,
                   models_splits, input_data_list, total_votes, votes, models_count,
                   split_index, complete_models, predictions_files, progress, output>>

\* lines 233-240: the head of the group loop; a resumed run checkpoints the
\* models of the group, then lines 261-262 once the groups are exhausted
SplitLoop ==
    /\ pc = "split"
    /\ IF GroupsLeft
       THEN /\ pc' = IF resume THEN "checkpoint" ELSE "retrieve"
            /\ model_index' = 1
       ELSE /\ pc' = "combine"
            /\ UNCHANGED model_index
    /\ UNCHANGED <<args, session, schema, disk, history, mode, resume, number_of_tests, reader_pos,
                   models_splits, input_data_list, total_votes, votes, models_count,
                   split_index, complete_models, predictions_files, progress, output>>

\* lines 235-240: the result of the checkpoint is not kept
CheckpointModel ==
    /\ pc = "checkpoint"
    /\ LET m == Group[model_index]
           ok == ArePredictionsCreated(m, number_of_tests)
       IN  /\ files' = FilesAfterCheckpoint(m, number_of_tests)
           /\ content' = ContentAfterCheckpoint(m, number_of_tests)
           /\ ckpt_seen' = ckpt_seen \cup {m}
           /\ ckpt_ok' = IF ok THEN ckpt_ok \cup {m} ELSE ckpt_ok
           /\ ckpt_failed' = (ckpt_failed \/ ~ok)
    /\ IF model_index < Len(Group)
       THEN model_index' = model_index + 1 /\ pc' = pc
       ELSE model_index' = 1 /\ pc' = "retrieve"
    /\ UNCHANGED <<args, session, schema, scored, complete_at_start, partial_at_start, prev, mode, resume,
                   number_of_tests, reader_pos, models_splits, input_data_list,
                   total_votes, votes, models_count, split_index, complete_models,
                   predictions_files, progress, output>>

\* the list of retrieved models is not emptied between two groups
RetrievedModelsKept == complete_models \o Group

\* lines 241-244: complete_models starts empty and gets the retrieved
\* models of the group, in order
RetrievedModels == Group

\* lines 241-246
RetrieveModels ==
    /\ pc = "retrieve"
    /\ complete_models' = RetrievedModels
    /\ model_index' = 1
    /\ pc' = "batch_predict"
    /\ UNCHANGED <<args, session, schema, disk, history, mode, resume, number_of_tests, reader_pos,
                   models_splits, input_data_list, total_votes, votes, models_count,
                   split_index, predictions_files, progress, output>>

\* lines 247-248, batch_predict(reuse=True): the library call takes the models
\* of the group in order; a model whose prediction file is there is skipped,
\* any other gets a new file
BatchPredictModel ==
    /\ pc = "batch_predict"
    /\ IF model_index > Len(complete_models)
       THEN /\ pc' = "batch_votes"
            /\ UNCHANGED <<model_index, disk, scored>>
       ELSE LET m == complete_models[model_index]
            IN  IF m \in files
                THEN /\ model_index' = model_index + 1
                     /\ pc' = pc
                     /\ UNCHANGED <<disk, scored>>
                ELSE /\ files' = files \cup {m}
                     /\ content' = [content EXCEPT ![m] = <<>>]
                     /\ scored' = scored \cup {m}
                     /\ IF input_data_list = <<>>
                        THEN model_index' = model_index + 1 /\ pc' = pc
                        ELSE model_index' = model_index /\ pc' = "batch_row"
    /\ UNCHANGED <<args, session, schema, ckpt_seen, ckpt_ok, ckpt_failed, complete_at_start, partial_at_start, prev,
                   mode, resume, number_of_tests, reader_pos, models_splits,
                   input_data_list, total_votes, votes, models_count, split_index,
                   complete_models, predictions_files, progress, output>>

\* the error of a row is swallowed: the model's file is left short and the
\* next model is taken
BatchPredictRowSkipsFailure ==
    /\ pc = "batch_row"
    /\ LET m == complete_models[model_index]
           k == Len(content[m]) + 1
       IN  IF ScoringFails(m, input_data_list[k])
           THEN /\ model_index' = model_index + 1
                /\ pc' = "batch_predict"
                /\ UNCHANGED content
           ELSE /\ content' = [content EXCEPT ![m] = Append(@, Predict(m, input_data_list[k]))]
                /\ IF k < Len(input_data_list)
                   THEN model_index' = model_index /\ pc' = pc
                   ELSE model_index' = model_index + 1 /\ pc' = "batch_predict"
    /\ UNCHANGED <<args, session, schema, files, history, mode, resume, number_of_tests, reader_pos,
                   models_splits, input_data_list, total_votes, votes, models_count,
                   split_index, complete_models, predictions_files, progress, output>>

\* batch_predict: one input record is scored and its prediction written
BatchPredictRow ==
    /\ pc = "batch_row"
    /\ LET m == complete_models[model_index]
           k == Len(content[m]) + 1
       IN  IF ScoringFails(m, input_data_list[k])
           THEN /\ pc' = "failed"
                /\ UNCHANGED <<content, model_index>>
           ELSE /\ content' = [content EXCEPT ![m] = Append(@, Predict(m, input_data_list[k]))]
                /\ IF k < Len(input_data_list)
                   THEN model_index' = model_index /\ pc' = pc
                   ELSE model_index' = model_index + 1 /\ pc' = "batch_predict"
    /\ UNCHANGED <<args, session, schema, files, history, mode, resume, number_of_tests, reader_pos,
                   models_splits, input_data_list, total_votes, votes, models_count,
                   split_index, complete_models, predictions_files, progress, output>>

\* line 249
BatchVotesStep ==
    /\ pc = "batch_votes"
    /\ votes' = BatchVotes(complete_models)
    /\ pc' = "count"
    /\ UNCHANGED <<args, session, schema, disk, history, mode, resume, number_of_tests, reader_pos,
                   models_splits, input_data_list, total_votes, models_count,
                   split_index, model_index, complete_models, predictions_files,
                   progress, output>>

\* the count without the cap at the number of models
NextModelsCountUncapped == models_count + max_models

\* lines 250-252
NextModelsCount == Min(models_count + max_models, Len(models))

\* lines 250-254
CountModels ==
    /\ pc = "count"
    /\ models_count' = NextModelsCount
    /\ progress' = Append(progress, models_count')
    /\ pc' = "merge"
    /\ UNCHANGED <<args, session, schema, disk, history, mode, resume, number_of_tests, reader_pos,
                   models_splits, input_data_list, total_votes, votes, split_index,
                   model_index, complete_models, predictions_files, output>>

\* lines 255-260: the votes of the group are appended to the running bundles
\* the votes of the group replace the running bundles
MergedVotesOverwrite == votes

\* the votes of the group are put in front of the running bundles
MergedVotesPrepend ==
    IF total_votes # <<>>
    THEN [index \in DOMAIN total_votes |->
             IF index <= Len(votes) THEN votes[index] \o total_votes[index]
             ELSE total_votes[index]]
    ELSE votes

MergedVotes ==
    IF total_votes # <<>>
    THEN [index \in DOMAIN total_votes |->
             IF index <= Len(votes) THEN total_votes[index] \o votes[index]
             ELSE total_votes[index]]
    ELSE votes

MergeVotes ==
    /\ pc = "merge"
    /\ IF total_votes # <<>> /\ Len(votes) > Len(total_votes)
       THEN /\ pc' = "error"
            /\ UNCHANGED <<total_votes, split_index>>
       ELSE /\ total_votes' = MergedVotes
            /\ split_index' = split_index + 1
            /\ pc' = "split"
    /\ UNCHANGED <<args, session, schema, disk, history, mode, resume, number_of_tests, reader_pos,
                   models_splits, input_data_list, votes, models_count, model_index,
                   complete_models, predictions_files, progress, output>>

\* the last vote written in place of the combination
CombinedRecordLastVote(multivote) == multivote[Len(multivote)]

\* line 264: multivote.combine(method)
CombinedRecord(multivote) == Combine(multivote)

\* lines 263-264
CombineRow ==
    /\ pc = "combine"
    /\ IF Len(output) < Len(total_votes)
       THEN /\ output' = Append(output, CombinedRecord(total_votes[Len(output) + 1]))
            /\ pc' = pc
       ELSE /\ pc' = "done"
            /\ UNCHANGED output
    /\ UNCHANGED <<args, session, schema, disk, history, mode, resume, number_of_tests, reader_pos,
                   models_splits, input_data_list, total_votes, votes, models_count,
                   split_index, model_index, complete_models, predictions_files,
                   progress>>

\* lines 266-267: the run ends and its process state is gone
Finish ==
    /\ pc = "done"
    /\ Stopped
    /\ prev' = "completed"
    /\ UNCHANGED <<args, session, schema, disk, scored, ckpt_seen, ckpt_ok, ckpt_failed,
                   complete_at_start, partial_at_start>>

\* the process is terminated; only the disk keeps its state
Kill ==
    /\ pc \notin {"idle", "done"}
    /\ Stopped
    /\ prev' = "killed"
    /\ UNCHANGED <<args, session, schema, disk, scored, ckpt_seen, ckpt_ok, ckpt_failed,
                   complete_at_start, partial_at_start>>

\* between two runs, the prediction files of the first group are deleted
DeleteFirstGroup ==
    /\ pc = "idle"
    /\ prev = "completed"
    /\ ~remote
    /\ ~CombinedMode
    /\ LET first == Range(ModelsSplits(models, max_models)[1])
       IN  /\ files' = files \ first
           /\ content' = [m \in DOMAIN content |-> IF m \in first THEN <<>> ELSE content[m]]
    /\ prev' = "deleted"
    /\ UNCHANGED <<args, session, schema, process, scored, ckpt_seen, ckpt_ok, ckpt_failed,
                   complete_at_start, partial_at_start>>

\* lines 171-184: the head of the loop over the models of a remote run; a
\* checkpoint that fails ends resuming, and the model gets a new file
RemoteModel ==
    /\ pc = "remote"
    /\ model_index <= Len(models)
    /\ LET m == models[model_index]
           ok == ArePredictionsCreated(m, number_of_tests)
           res == IF resume THEN ok ELSE resume
       IN  /\ predictions_files' = Append(predictions_files, m)
           /\ resume' = res
           /\ ckpt_seen' = IF resume THEN ckpt_seen \cup {m} ELSE ckpt_seen
           /\ ckpt_ok' = IF resume /\ ok THEN ckpt_ok \cup {m} ELSE ckpt_ok
           /\ ckpt_failed' = (ckpt_failed \/ (resume /\ ~ok))
           /\ IF res
              THEN /\ model_index' = model_index + 1
                   /\ pc' = pc
                   /\ UNCHANGED <<disk, scored>>
              ELSE /\ files' = files \cup {m}
                   /\ content' = [content EXCEPT ![m] = <<>>]
                   /\ scored' = scored \cup {m}
                   /\ model_index' = model_index
                   /\ pc' = "remote_rows"
    /\ UNCHANGED <<args, session, schema, complete_at_start, partial_at_start, prev, mode, number_of_tests, reader_pos,
                   models_splits, input_data_list, total_votes, votes, models_count,
                   split_index, complete_models, progress, output>>

\* lines 185-197: the rows left in test_reader are predicted one by one
RemoteRow ==
    /\ pc = "remote_rows"
    /\ LET m == models[model_index]
       IN  IF reader_pos < nrows
           THEN /\ content' = [content EXCEPT ![m] = Append(@, Predict(m, reader_pos + 1))]
                /\ reader_pos' = reader_pos + 1
                /\ UNCHANGED <<model_index, pc>>
           ELSE /\ model_index' = model_index + 1
                /\ pc' = "remote"
                /\ UNCHANGED <<content, reader_pos>>
    /\ UNCHANGED <<args, session, schema, files, history, mode, resume, number_of_tests, models_splits,
                   input_data_list, total_votes, votes, models_count, split_index,
                   complete_models, predictions_files, progress, output>>

\* lines 198-200
RemoteCombine ==
    /\ pc = "remote"
    /\ model_index > Len(models)
    /\ output' = CombineVotes(predictions_files)
    /\ pc' = "done"
    /\ UNCHANGED <<args, session, schema, disk, history, mode, resume, number_of_tests, reader_pos,
                   models_splits, input_data_list, total_votes, votes, models_count,
                   split_index, model_index, complete_models, predictions_files,
                   progress>>

Next ==
    \/ StartPredict
    \/ CombinedStart
    \/ CombinedRow
    \/ BatchStart
    \/ SplitLoop
    \/ CheckpointModel
    \/ RetrieveModels
    \/ BatchPredictModel
    \/ BatchPredictRow
    \/ BatchVotesStep
    \/ CountModels
    \/ MergeVotes
    \/ CombineRow
    \/ Finish
    \/ Kill
    \/ DeleteFirstGroup

Spec == Init /\ [][Next]_vars

InitRemote ==
    /\ ArgsInit
    /\ remote = TRUE
    /\ failing = {}
    /\ SchemaInit
    /\ SessionInit
    /\ Idle
    /\ DiskInit
    /\ HistoryInit

NextRemote ==
    \/ StartPredict
    \/ RemoteModel
    \/ RemoteRow
    \/ RemoteCombine
    \/ Finish
    \/ Kill

SpecRemote == InitRemote /\ [][NextRemote]_vars

\* local runs over a test file of which one row is malformed for one model
InitFail ==
    /\ ArgsInit
    /\ seed = 0
    /\ remote = FALSE
    /\ \E m \in 1..MaxModels, r \in 1..MaxRows : failing = {<<m, r>>}
    /\ SchemaInit
    /\ SessionInit
    /\ Idle
    /\ DiskInit
    /\ HistoryInit

SpecFail == InitFail /\ [][Next]_vars

\* ------------------------------------------- the header of the test file
Schemas == {<<"a", "y">>, <<"a", "b", "y">>}

HeaderNames == {"a", "b", "x", "y"}

Reverse(seq) == [k \in 1..Len(seq) |-> seq[Len(seq) + 1 - k]]

\* lines 126-129: the names of the model's fields in column order, the
\* objective field left out
FieldsNames ==
    LET columns == SelectSeq([c \in 1..Len(fields) |-> c],
                             LAMBDA c : c # objective_field)
    IN  [k \in 1..Len(columns) |-> fields[columns[k]]]

\* the indices in increasing order, as the comprehension leaves them
ExcludeIndicesAscending(hs) ==
    SelectSeq([k \in 1..Len(hs) |-> k - 1],
              LAMBDA i : hs[i + 1] \notin Range(FieldsNames))

\* lines 131-133: the 0-based indices of the headers that are not field
\* names, reversed
ExcludeIndices(hs) ==
    Reverse(SelectSeq([k \in 1..Len(hs) |-> k - 1],
                      LAMBDA i : hs[i + 1] \notin Range(FieldsNames)))

\* del seq[i], i counted from 0
DelAt(seq, i) == SubSeq(seq, 1, i) \o SubSeq(seq, i + 2, Len(seq))

\* for index in exclude: del seq[index]
RECURSIVE DelAll(_, _)
DelAll(seq, ex) ==
    IF ex = <<>> THEN seq ELSE DelAll(DelAt(seq, Head(ex)), Tail(ex))

\* some del of the loop is out of range (IndexError)
RECURSIVE DelRaises(_, _)
DelRaises(seq, ex) ==
    IF ex = <<>> THEN FALSE
    ELSE IF Head(ex) >= Len(seq) THEN TRUE
    ELSE DelRaises(DelAt(seq, Head(ex)), Tail(ex))

\* the test of line 135 always passes
HeadersKeptAlways(hs, ex) == TRUE

\* line 135: len(headers) - len(exclude)
HeadersKept(hs, ex) == Len(hs) - Len(ex) # 0

\* the state of the process outside the schema reconciliation
scoring == <<mode, resume, number_of_tests, models_splits, input_data_list,
             total_votes, votes, models_count, split_index, model_index,
             complete_models, predictions_files, progress, output>>

\* the exclusion list starts with the first column in it
ExcludeFirstColumn == <<0>>

\* line 121: exclude = []
NoExclusion == <<>>

\* lines 118-151
ReconcileHeader ==
    /\ pc = "idle"
    /\ IF test_set_header
       THEN LET ex == ExcludeIndices(file_header)
            IN  /\ exclude' = ex
                /\ IF Len(ex) # 0
                   THEN IF HeadersKept(file_header, ex)
                        THEN /\ warned' = TRUE
                             /\ headers' = DelAll(file_header, ex)
                             /\ pc' = "rows"
                        ELSE /\ warned' = FALSE
                             /\ headers' = file_header
                             /\ pc' = "raised"
                   ELSE /\ warned' = FALSE
                        /\ headers' = file_header
                        /\ pc' = "rows"
       ELSE /\ exclude' = NoExclusion
            /\ headers' = <<>>
            /\ warned' = FALSE
            /\ pc' = "rows"
    /\ reader_pos' = 0
    /\ processed' = <<>>
    /\ UNCHANGED <<args, session, disk, history, scoring, fields, objective_field,
                   file_header, test_rows>>

\* lines 211-213 and 226-228 (185-187 in the remote path): the next row is
\* read and the excluded columns are deleted from it
ExcludeRow ==
    /\ pc = "rows"
    /\ IF reader_pos < Len(test_rows)
       THEN /\ reader_pos' = reader_pos + 1
            /\ IF DelRaises(test_rows[reader_pos + 1], exclude)
               THEN /\ pc' = "error"
                    /\ UNCHANGED processed
               ELSE /\ processed' = Append(processed,
                                           DelAll(test_rows[reader_pos + 1], exclude))
                    /\ pc' = pc
       ELSE /\ pc' = "done"
            /\ UNCHANGED <<reader_pos, processed>>
    /\ UNCHANGED <<args, session, disk, history, scoring, fields, objective_field,
                   file_header, test_rows, headers, exclude, warned>>

\* the lengths a data row can have under a header, or without one
RowLengths(h) ==
    IF test_set_header
    THEN {n \in (Len(h) - 1)..(Len(h) + 1) : n >= 0}
    ELSE 1..MaxCols

InitSchema ==
    /\ models = <<1>>
    /\ max_models = 1
    /\ seed = 0
    /\ remote = FALSE
    /\ failing = {}
    /\ test_set_header \in BOOLEAN
    /\ fields \in Schemas
    /\ objective_field \in DOMAIN fields
    /\ file_header \in (IF test_set_header
                         THEN UNION {[1..n -> HeaderNames] : n \in 0..MaxCols}
                         ELSE {<<>>})
    /\ nrows \in 0..MaxRows
    /\ \E lens \in [1..nrows -> RowLengths(file_header)] :
           test_rows = [r \in 1..nrows |-> [c \in 1..lens[r] |-> c]]
    /\ headers = <<>>
    /\ exclude = <<>>
    /\ warned = FALSE
    /\ processed = <<>>
    /\ SessionInit
    /\ Idle
    /\ DiskInit
    /\ HistoryInit

NextSchema ==
    \/ ReconcileHeader
    \/ ExcludeRow

SpecSchema == InitSchema /\ [][NextSchema]_vars

\* ------------------------------------------------- main and the command log
\* every invocation is logged
LoggedAlways(a) == TRUE

\* line 728: if not "--resume" in args
Logged(a) == ~a.resume

\* get_log_reversed: the line of the log stack_level lines before the last
GetLogReversed(lines, level) ==
    IF level < Len(lines) THEN lines[Len(lines) - level] ELSE NoCommand

\* lines 735-796: the directory is appended to the directory stack in the
\* else branch of if command_args.resume, which is reached when parse_args
\* (line 735) returned
DirectoryLogged(a, ok) == ok /\ ~a.resume

\* lines 712-796: the logs are cleared on --clear-logs, the command is
\* appended to the command log unless it is a resume call, the arguments are
\* parsed (parse_args leaves the process on arguments it rejects), a resume
\* call reads the command to resume from the log, and any other call appends
\* its output directory to the directory stack
Main ==
    /\ invocations < MaxInvocations
    /\ \E r \in BOOLEAN, c \in BOOLEAN, l \in 0..1, ok \in BOOLEAN :
           LET a == [resume |-> r, clear_logs |-> c, stack_level |-> l,
                     n |-> invocations + 1]
               cleared == IF c THEN <<>> ELSE command_log
               lines == IF Logged(a) THEN Append(cleared, a) ELSE cleared
               dirs == IF c THEN <<>> ELSE directory_log
           IN  /\ last_args' = a
               /\ command_log' = lines
               /\ parsed' = ok
               /\ replayed' = IF ok /\ r THEN GetLogReversed(lines, l) ELSE NoCommand
               /\ directory_log' = IF DirectoryLogged(a, ok) THEN Append(dirs, a.n)
                                                            ELSE dirs
    /\ invocations' = invocations + 1
    /\ UNCHANGED <<args, process, disk, history, schema, deletion, options, earlier,
                   creation, resources, log_lines, stage, resuming, log>>

\* the arguments of predict, for the specifications that do not reach it
ArgsNone ==
    /\ models = <<1>>
    /\ max_models = 1
    /\ nrows = 0
    /\ test_set_header = FALSE
    /\ remote = FALSE
    /\ seed = 0
    /\ failing = {}

InitMain ==
    /\ ArgsNone
    /\ SchemaInit
    /\ SessionInit
    /\ Idle
    /\ DiskInit
    /\ HistoryInit

NextMain == Main

SpecMain == InitMain /\ [][NextMain]_vars

\* ------------------------------------------------- the delete mode of main
\* a missing delete file is passed over
MissingIgnored(file) == FALSE

\* lines 930-931: if not os.path.exists(command_args.delete_file): raise
MissingRaises(file) == file = "missing"

\* list_source_ids ... list_evaluation_ids: the ids of the resources of one
\* kind that carry the tag
ListIds(kind) == IF kind \in tagged THEN <<kind>> ELSE <<>>

\* lines 934-961: what a tag option adds to the list; --all-tag queries the
\* five kinds in turn
TagIds(option) ==
    IF option = "all"
    THEN ListIds(ResourceKinds[1]) \o ListIds(ResourceKinds[2])
             \o ListIds(ResourceKinds[3]) \o ListIds(ResourceKinds[4])
             \o ListIds(ResourceKinds[5])
    ELSE ListIds(option)

\* the state main leaves alone in its delete mode
kept == <<args, process, disk, history, schema, command_log, invocations,
          last_args, replayed, directory_log, parsed, options, earlier, creation,
          resources, log_lines, stage, resuming, log>>

\* the inputs of the invocation
given == <<delete_option, data_given, delete_list_arg, delete_file, tag_options,
           tagged>>

\* lines 916-925 and 975-978: if command_args.delete the delete list is
\* assembled, elif data is given compute_output is called, else main ends
Dispatch ==
    /\ position = "parsed"
    /\ IF delete_option
       THEN /\ position' = "list"
            /\ delete_list' = <<>>
            /\ UNCHANGED output_calls
       ELSE IF data_given
            THEN /\ position' = "end"
                 /\ output_calls' = output_calls + 1
                 /\ UNCHANGED delete_list
            ELSE /\ position' = "end"
                 /\ UNCHANGED <<delete_list, output_calls>>
    /\ UNCHANGED <<kept, given, tag_index, delete_calls, deleted>>

\* lines 926-928: the ids of --delete-list
ReadDeleteList ==
    /\ position = "list"
    /\ delete_list' = delete_list_arg
    /\ position' = "file"
    /\ UNCHANGED <<kept, given, tag_index, delete_calls, deleted, output_calls>>

\* lines 929-933: the lines of the delete file; a file that does not exist
\* raises
ReadDeleteFile ==
    /\ position = "file"
    /\ IF delete_file = "none"
       THEN /\ position' = "tags"
            /\ UNCHANGED delete_list
       ELSE IF MissingRaises(delete_file)
            THEN /\ position' = "raised"
                 /\ UNCHANGED delete_list
            ELSE /\ position' = "tags"
                 /\ delete_list' = IF delete_file = "present"
                                   THEN Append(delete_list, "filed")
                                   ELSE delete_list
    /\ UNCHANGED <<kept, given, tag_index, delete_calls, deleted, output_calls>>

\* lines 934-961: one of the six tag options
QueryTag ==
    /\ position = "tags"
    /\ delete_list' = IF TagOptions[tag_index] \in tag_options
                      THEN delete_list \o TagIds(TagOptions[tag_index])
                      ELSE delete_list
    /\ IF tag_index < Len(TagOptions)
       THEN tag_index' = tag_index + 1 /\ position' = position
       ELSE tag_index' = tag_index /\ position' = "delete"
    /\ UNCHANGED <<kept, given, delete_calls, deleted, output_calls>>

\* lines 962-974: delete(api, delete_list)
DeleteCall ==
    /\ position = "delete"
    /\ delete_calls' = delete_calls + 1
    /\ deleted' = deleted \cup Range(delete_list)
    /\ position' = "end"
    /\ UNCHANGED <<kept, given, delete_list, tag_index, output_calls>>

InitDelete ==
    /\ ArgsNone
    /\ SchemaInit
    /\ command_log = <<>>
    /\ invocations = 0
    /\ last_args = NoCommand
    /\ replayed = NoCommand
    /\ directory_log = <<>>
    /\ parsed = TRUE
    /\ OutputNone
    /\ Idle
    /\ DiskInit
    /\ HistoryInit
    /\ delete_option \in BOOLEAN
    /\ data_given \in BOOLEAN
    /\ delete_list_arg \in {<<>>, <<"listed">>}
    /\ delete_file \in {"none", "missing", "present"}
    /\ tag_options \in SUBSET Range(TagOptions)
    /\ tagged \in {Range(ResourceKinds), {"source", "model"}}
    /\ DeletionStart

NextDelete ==
    \/ Dispatch
    \/ ReadDeleteList
    \/ ReadDeleteFile
    \/ QueryTag
    \/ DeleteCall

SpecDelete == InitDelete /\ [][NextDelete]_vars

\* ---------------------------------------------------------- compute_output
\* the state outside compute_output
outside == <<models, nrows, test_set_header, remote, seed, failing, process, disk,
             history, schema, shell>>

\* a line for the resource is written to the log file, when there is one
Logging == IF log = "open" THEN log_lines + 1 ELSE log_lines

\* lines 293-303: with a log file and clear_logs, line 300 opens `log`, which
\* still holds None (the file is args.log_file): a TypeError, which
\* the except IOError of line 301 does not catch
OpenLog ==
    /\ stage = "idle"
    /\ IF log_file
       THEN IF clear_logs
            THEN /\ stage' = "type_error"
                 /\ UNCHANGED <<log, log_lines>>
            ELSE /\ log' = "open"
                 /\ stage' = "source"
                 /\ UNCHANGED log_lines
       ELSE /\ stage' = "source"
            /\ UNCHANGED <<log, log_lines>>
    /\ UNCHANGED <<outside, max_models, options, earlier, creation, resources,
                   resuming>>

\* the checkpoint is consulted whether the run is resumed or not
CheckpointUnguarded(found) == found

\* if resume: resume, resource = checkpoint(...): the checkpoint succeeds
\* when the earlier run left the resource
Checkpoint(found) == resuming /\ found

\* the resource is created whatever the checkpoint found
MustCreateAlways(ok) == TRUE

\* lines 316-326, 410-413 and 651: the resource is created when no earlier
\* one was found
MustCreate(ok) == ~ok

\* a stage of one resource: checkpoint, then creation or retrieval
ResourceStage(name, found) ==
    LET ok == Checkpoint(found)
    IN  /\ resuming' = ok
        /\ consulted' = IF resuming THEN Append(consulted, name) ELSE consulted
        /\ failed_stages' = IF resuming /\ ~ok THEN failed_stages \cup {name}
                                               ELSE failed_stages
        /\ taken' = IF ok THEN taken \cup {name} ELSE taken
        /\ IF MustCreate(ok)
           THEN /\ creates' = [creates EXCEPT ![name] = @ + 1]
                /\ log_lines' = Logging
           ELSE UNCHANGED <<creates, log_lines>>

\* lines 305-394
SourceStage ==
    /\ stage = "source"
    /\ ResourceStage("source", source_found)
    /\ stage' = "dataset"
    /\ UNCHANGED <<outside, max_models, options, earlier, creation, log>>

\* lines 396-473
DatasetStage ==
    /\ stage = "dataset"
    /\ ResourceStage("dataset", dataset_found)
    /\ stage' = "models"
    /\ UNCHANGED <<outside, max_models, options, earlier, creation, log>>

\* lines 507-525: on a resumed run the models the earlier run created are
\* read, `models = model_ids` makes the two names one list, and the number
\* of models to create is reduced
ModelsCheckpoint ==
    /\ stage = "models"
    /\ IF resuming
       THEN LET ok == models_found = number_of_models
            IN  /\ resuming' = ok
                /\ consulted' = Append(consulted, "model")
                /\ failed_stages' = IF ok THEN failed_stages
                                          ELSE failed_stages \cup {"model"}
                /\ taken' = IF models_found > 0 THEN taken \cup {"model"} ELSE taken
                /\ model_ids' = [m \in 1..models_found |-> <<"id", m>>]
                /\ models_list' = [m \in 1..models_found |-> <<"id", m>>]
                /\ aliased' = TRUE
                /\ number_of_models' = number_of_models - models_found
       ELSE /\ model_ids' = <<>>
            /\ models_list' = <<>>
            /\ aliased' = FALSE
            /\ UNCHANGED <<resuming, consulted, failed_stages, taken, number_of_models>>
    /\ loop_index' = 1
    /\ last_model' = 0
    /\ stage' = "create"
    /\ UNCHANGED <<outside, max_models, options, earlier, model_status, creates,
                   log_lines, log>>

\* the previous model is awaited one creation later
MustWaitLate(i) == i > max_parallel_models + 1

\* line 531: if i > args.max_parallel_models
MustWait(i) == i > max_parallel_models

\* the model a creation of this run gets
NewModel == (IF aliased THEN models_found ELSE 0) + loop_index

\* lines 530-540: one turn of the creation loop; check_resource returns
\* when last_model is finished
CreateModel ==
    /\ stage = "create"
    /\ loop_index <= number_of_models
    /\ MustWait(loop_index) => model_status[last_model] = "finished"
    /\ LET m == NewModel
       IN  /\ model_status' = [model_status EXCEPT ![m] = "unfinished"]
           /\ last_model' = m
           /\ IF aliased
              THEN /\ model_ids' = model_ids \o <<<<"id", m>>, <<"model", m>>>>
                   /\ models_list' = model_ids'
              ELSE /\ model_ids' = Append(model_ids, <<"id", m>>)
                   /\ models_list' = Append(models_list, <<"model", m>>)
    /\ creates' = [creates EXCEPT !["model"] = @ + 1]
    /\ log_lines' = Logging
    /\ loop_index' = loop_index + 1
    /\ UNCHANGED <<outside, max_models, options, earlier, number_of_models, aliased,
                   consulted, failed_stages, taken, stage, resuming, log>>

\* a model of this run finishes, at any time
ModelFinishes ==
    /\ stage = "create"
    /\ \E m \in DOMAIN model_status :
           /\ model_status[m] = "unfinished"
           /\ model_status' = [model_status EXCEPT ![m] = "finished"]
    /\ UNCHANGED <<outside, max_models, options, earlier, number_of_models,
                   model_ids, models_list, aliased, last_model, loop_index,
                   resources, log_lines, stage, resuming, log>>

\* lines 541-550: a single created model that is not finished is awaited
\* and put at the head of models
ModelsCreated ==
    /\ stage = "create"
    /\ loop_index > number_of_models
    /\ IF number_of_models > 0 /\ number_of_models < 2
          /\ model_status[last_model] # "finished"
       THEN /\ model_status' = [model_status EXCEPT ![last_model] = "finished"]
            /\ models_list' = [models_list EXCEPT ![1] = <<"model", last_model>>]
            /\ model_ids' = IF aliased THEN models_list' ELSE model_ids
       ELSE UNCHANGED <<model_status, models_list, model_ids>>
    /\ stage' = "retrieve"
    /\ UNCHANGED <<outside, max_models, options, earlier, number_of_models, aliased,
                   last_model, loop_index, resources, log_lines, resuming, log>>

\* lines 562-580: the models are retrieved for the predictions, all of them
\* into a new list below max_batch_models, the first one otherwise
RetrieveForPredictions ==
    /\ stage = "retrieve"
    /\ IF ~evaluate
       THEN IF Len(model_ids) < max_models
            THEN /\ models_list' = [k \in DOMAIN model_ids |->
                                        <<"model", model_ids[k][2]>>]
                 /\ aliased' = FALSE
                 /\ UNCHANGED model_ids
            ELSE /\ models_list' = [models_list EXCEPT
                                        ![1] = <<"model", model_ids[1][2]>>]
                 /\ model_ids' = IF aliased THEN models_list' ELSE model_ids
                 /\ UNCHANGED aliased
       ELSE UNCHANGED <<models_list, model_ids, aliased>>
    /\ stage' = IF evaluate THEN "evaluate" ELSE "predict"
    /\ UNCHANGED <<outside, max_models, options, earlier, number_of_models,
                   last_model, loop_index, model_status, resources, log_lines,
                   resuming, log>>

\* lines 619-626: predict is called with the resume of compute_output; it
\* consults the checkpoints of the predictions when that is set
CallPredict ==
    /\ stage = "predict"
    /\ consulted' = IF resuming THEN Append(consulted, "predictions") ELSE consulted
    /\ stage' = "close"
    /\ UNCHANGED <<outside, max_models, options, earlier, creation, creates,
                   failed_stages, taken, log_lines, resuming, log>>

\* lines 643-691
EvaluationStage ==
    /\ stage = "evaluate"
    /\ ResourceStage("evaluation", evaluation_found)
    /\ stage' = "close"
    /\ UNCHANGED <<outside, max_models, options, earlier, creation, log>>

\* lines 693-694
CloseLog ==
    /\ stage = "close"
    /\ log' = "None"
    /\ stage' = "end"
    /\ UNCHANGED <<outside, max_models, options, earlier, creation, resources,
                   log_lines, resuming>>

InitOutput ==
    /\ models = <<1>>
    /\ max_models \in {1, MaxModels + 1}
    /\ nrows = 0
    /\ test_set_header = FALSE
    /\ remote = FALSE
    /\ seed = 0
    /\ failing = {}
    /\ SchemaInit
    /\ ShellInit
    /\ Idle
    /\ DiskInit
    /\ HistoryInit
    /\ requested \in 1..MaxModels
    /\ number_of_models = requested
    /\ max_parallel_models \in 1..MaxModels
    /\ evaluate \in BOOLEAN
    /\ log_file \in BOOLEAN
    /\ clear_logs \in (IF log_file THEN BOOLEAN ELSE {FALSE})
    /\ log_lines \in (IF log_file THEN {0, 1} ELSE {0})
    /\ resuming \in BOOLEAN
    /\ source_found \in (IF resuming THEN BOOLEAN ELSE {FALSE})
    /\ dataset_found \in (IF resuming THEN BOOLEAN ELSE {FALSE})
    /\ models_found \in (IF resuming THEN 0..requested ELSE {0})
    /\ evaluation_found \in (IF resuming THEN BOOLEAN ELSE {FALSE})
    /\ OutputIdle

NextOutput ==
    \/ OpenLog
    \/ SourceStage
    \/ DatasetStage
    \/ ModelsCheckpoint
    \/ CreateModel
    \/ ModelFinishes
    \/ ModelsCreated
    \/ RetrieveForPredictions
    \/ CallPredict
    \/ EvaluationStage
    \/ CloseLog

SpecOutput == InitOutput /\ [][NextOutput]_vars

TypeOK ==
    /\ pc \in {"idle", "local", "combined", "split", "checkpoint", "retrieve",
               "batch_predict", "batch_row", "batch_votes", "count", "merge",
               "combine", "done", "error", "failed", "remote", "remote_rows",
               "rows", "raised"}
    /\ files \subseteq Range(models)
    /\ \A m \in Range(models) : Len(content[m]) <= nrows
    /\ \A m \in Range(models) : m \notin files => content[m] = <<>>

\* ------------------------------------------------------------ the claims
CeilDiv(n, m) == CHOOSE c \in 0..n : (c - 1) * m < n /\ n <= c * m

ChunkContract(ms, mx, groups) ==
    /\ Len(groups) = CeilDiv(Len(ms), mx)
    /\ \A k \in 1..(Len(groups) - 1) : Len(groups[k]) = mx
    /\ Len(groups[Len(groups)]) \in 1..mx
    /\ Flatten(groups) = ms

\* the bundle of a row when all the models are scored in one pass
OnePassBundle(r) == [k \in DOMAIN models |-> Predict(models[k], r)]

\* the combined output of an uninterrupted run
ReferenceOutput == [r \in 1..nrows |-> Combine(OnePassBundle(r))]

\* C1: the chunk split of predict yields ceil(N/M) groups, each of size M
\* except possibly the last (of size 1..M), and the groups concatenated in
\* order are the original model list; for the split the run computed and for
\* every list length and group size within the bounds.
C1_ChunkSplit ==
    /\ mode = "batch" => ChunkContract(models, max_models, models_splits)
    /\ \A n \in 1..MaxModels, mx \in 1..(MaxModels + 1) :
           ChunkContract([k \in 1..n |-> k], mx, ModelsSplits([k \in 1..n |-> k], mx))

C1_Witness ==
    /\ mode = "batch"
    /\ Len(models_splits) = 2
    /\ Len(models_splits[1]) = max_models
    /\ Len(models_splits[2]) < max_models

\* C2: a local run is in combined mode exactly when N < M and in batch mode
\* exactly when N >= M; a run in combined mode writes no per-model file.
C2_ModeSelection ==
    /\ pc \notin {"idle", "local"} => mode \in {"combined", "batch"}
    /\ mode = "combined" <=> (pc \notin {"idle", "local"} /\ Len(models) < max_models)
    /\ mode = "batch" <=> (pc \notin {"idle", "local"} /\ Len(models) >= max_models)
    /\ mode = "combined" => files = {} /\ scored = {}

C2_Witness ==
    /\ mode = "combined"
    /\ pc = "done"
    /\ Len(models) > 1
    /\ nrows > 0
    /\ Len(output) = nrows
    /\ files = {}

\* C3: in batch mode, once all the groups are processed, there is one running
\* bundle per input row and each holds exactly N predictions.
C3_BundleLength ==
    (mode = "batch" /\ pc \in {"combine", "done"}) =>
        /\ Len(total_votes) = nrows
        /\ \A r \in DOMAIN total_votes : Len(total_votes[r]) = Len(models)

C3_Witness ==
    /\ mode = "batch"
    /\ pc = "combine"
    /\ Len(models_splits) = 3
    /\ nrows = 2
    /\ \A r \in DOMAIN total_votes : Len(total_votes[r]) = 3

\* C4: in batch mode the accumulated bundle of every row holds, at position k,
\* the prediction of the k-th model of the model list for that row: the
\* bundle of a single pass over all the models.
C4_BundleOrder ==
    (mode = "batch" /\ pc \in {"combine", "done"}) =>
        total_votes = [r \in 1..nrows |-> OnePassBundle(r)]

C4_Witness ==
    /\ mode = "batch"
    /\ pc = "combine"
    /\ seed = 0
    /\ Len(models) = 3
    /\ max_models = 2
    /\ nrows >= 1
    /\ total_votes[1] = <<"yes", "yes", "no">>

\* C5 as stated: a run with M = N is in combined mode.
C5_Original ==
    (pc \notin {"idle", "local"} /\ max_models = Len(models)) => mode = "combined"

\* C5, amended: a run with M = N is a batch run of a single group, and the
\* combined output of every batch run, of one group (M = N) or of several
\* (M < N), is row for row the output of an uninterrupted single pass.
C5_SingleGroupBatch ==
    /\ (pc \notin {"idle", "local"} /\ max_models = Len(models)) =>
           (mode = "batch" /\ Len(models_splits) = 1)
    /\ (mode = "batch" /\ Len(models) > max_models) => Len(models_splits) > 1
    /\ (mode = "batch" /\ pc = "done") => output = ReferenceOutput

C5_Witness ==
    /\ pc = "done"
    /\ mode = "batch"
    /\ max_models = Len(models)
    /\ Len(models) = 3
    /\ nrows = 2
    /\ output = ReferenceOutput

\* C6: once a checkpoint of a resumed run has failed, resume is disabled for
\* the rest of the run: no later file passes a checkpoint and is trusted.
C6_ResumeDisabled == [][ckpt_failed => ckpt_ok' \subseteq ckpt_ok]_vars

\* C7: on a resumed batch run the models of a group are all checkpointed
\* before the group is scored, against the data rows of the test file (its
\* lines, less the header); the checkpoint succeeds exactly for the files
\* that were complete, and such a model is not scored again: its file is the
\* one the votes are read from.
C7_CheckpointBeforeScoring ==
    (resume /\ mode = "batch") =>
        /\ number_of_tests = nrows
        /\ ckpt_ok = ckpt_seen \cap complete_at_start
        /\ ckpt_ok \cap scored = {}
        /\ scored \subseteq ckpt_seen
        /\ pc \in {"retrieve", "batch_predict", "batch_row", "batch_votes", "count", "merge"}
               => Range(Group) \subseteq ckpt_seen
        /\ pc \in {"count", "merge"} =>
               votes = [r \in 1..nrows |-> [k \in DOMAIN Group |-> content[Group[k]][r]]]

C7_Witness ==
    /\ resume
    /\ mode = "batch"
    /\ test_set_header
    /\ pc = "count"
    /\ nrows = 2
    /\ split_index = 2
    /\ Range(models_splits[1]) \subseteq scored
    /\ Range(Group) \subseteq ckpt_ok
    /\ votes = [r \in 1..nrows |-> [k \in DOMAIN Group |-> Predict(Group[k], r)]]

\* C8: a complete batch run, then the files of the first group deleted, then
\* a new run: the output is that of an uninterrupted run, the models of the
\* first group are scored again and no other model is.
C8_ResumeAfterDelete ==
    (prev = "deleted" /\ pc = "done") =>
        /\ output = ReferenceOutput
        /\ scored = Range(models_splits[1])

C8_Witness ==
    /\ prev = "deleted"
    /\ pc = "done"
    /\ Len(models_splits) = 2
    /\ nrows = 2
    /\ scored = Range(models_splits[1])
    /\ output = ReferenceOutput

\* C9: a batch run resumed after the process was terminated scores exactly
\* the models whose file was not complete, reads votes only from complete
\* files, and ends with the output of an uninterrupted run.
C9_ResumeAfterKill ==
    (prev = "killed" /\ resume /\ mode = "batch") =>
        /\ pc \in {"count", "merge"} =>
               \A m \in Range(Group) : m \in files /\ Len(content[m]) = nrows
        /\ pc \in {"combine", "done"} =>
               /\ scored = Range(models) \ complete_at_start
               /\ partial_at_start \subseteq scored
        /\ pc = "done" => output = ReferenceOutput

C9_Witness ==
    /\ prev = "killed"
    /\ resume
    /\ mode = "batch"
    /\ pc = "done"
    /\ nrows = 2
    /\ complete_at_start # {}
    /\ partial_at_start # {}
    /\ files = Range(models)
    /\ output = ReferenceOutput

\* C10: combine_votes over the per-model files in model order gives, row for
\* row, the output the batch run wrote from its accumulated bundles.
C10_Recombination ==
    (mode = "batch" /\ pc = "done") => CombineVotes(models) = output

C10_Witness ==
    /\ mode = "batch"
    /\ pc = "done"
    /\ Len(models_splits) >= 2
    /\ nrows = 2
    /\ output # <<>>
    /\ CombineVotes(models) = output

VoteLabels == {"yes", "no", "maybe"}

Bundles == UNION {[1..n -> VoteLabels] : n \in 1..MaxModels}

\* v has the highest count in bundle b, and among the values of that count
\* it is the one that occurs first
IsPlurality(b, v) ==
    /\ \E i \in DOMAIN b : b[i] = v
    /\ \A i \in DOMAIN b :
           LET cv == Cardinality({k \in DOMAIN b : b[k] = v})
               cw == Cardinality({k \in DOMAIN b : b[k] = b[i]})
               fv == CHOOSE k \in DOMAIN b : b[k] = v /\ \A l \in 1..(k - 1) : b[l] # v
           IN  cw < cv \/ (cw = cv /\ \A l \in 1..(fv - 1) : b[l] # b[i])

PluralityContract ==
    /\ \A b \in Bundles : IsPlurality(b, Combine(b))
    /\ Combine(<<"yes", "yes", "no">>) = "yes"
    /\ Combine(<<"no", "yes", "no">>) = "no"
    /\ Combine(<<"yes", "no">>) = "yes"

\* C11: the plurality combination of a bundle is the value of the highest
\* count, ties going to the value that occurs first in the bundle; every
\* combined record a batch run writes is that value for the row's bundle.
C11_Plurality ==
    /\ PluralityContract
    /\ (mode = "batch" /\ pc \in {"combine", "done"}) =>
           \A r \in DOMAIN output : IsPlurality(total_votes[r], output[r])

C11_Witness ==
    /\ mode = "batch"
    /\ pc = "done"
    /\ Len(models) = 2
    /\ Len(output) = 2
    /\ total_votes[2] = <<"no", "yes">>
    /\ output[2] = "no"

\* C16: a local run that completes has written exactly one combined record
\* per data row of the test file (the header is not a data row), the r-th
\* record being the combination for the r-th row, in combined mode and in
\* batch mode alike; records are written one by one in that order.
C16_OneRecordPerRow ==
    /\ Len(output) <= nrows
    /\ \A r \in DOMAIN output : output[r] = Combine(OnePassBundle(r))
    /\ (mode \in {"combined", "batch"} /\ pc = "done") => Len(output) = nrows
    /\ mode = "batch" => input_data_list = [r \in 1..nrows |-> r]

C16_Witness ==
    /\ mode = "batch"
    /\ pc = "done"
    /\ test_set_header
    /\ nrows = 2
    /\ Len(output) = 2
    /\ output[1] # output[2]
    /\ input_data_list = <<1, 2>>

\* C18: in batch mode the count reported after the k-th group is
\* min(k * M, N), the number of models of the groups processed so far; the
\* reported counts never decrease, never exceed N, and once the last group
\* is processed the last reported count is N.
C18_Progress ==
    mode = "batch" =>
        /\ progress = [k \in 1..Len(progress) |-> Min(k * max_models, Len(models))]
        /\ \A k \in DOMAIN progress :
               /\ progress[k] = Len(Flatten(SubSeq(models_splits, 1, k)))
               /\ progress[k] <= Len(models)
               /\ k > 1 => progress[k - 1] <= progress[k]
        /\ pc \in {"combine", "done"} =>
               /\ Len(progress) = Len(models_splits)
               /\ progress[Len(progress)] = Len(models)

C18_Witness ==
    /\ mode = "batch"
    /\ pc = "done"
    /\ Len(models) = 3
    /\ max_models = 2
    /\ progress = <<2, 3>>

\* the models of the groups whose iteration is over
ModelsProcessed == Flatten(SubSeq(models_splits, 1, split_index - 1))

\* C19: at the end of every group iteration of a batch run there is one
\* running bundle per row, each holding exactly the predictions of the models
\* of the groups processed so far, a prefix of the model list in its order;
\* all the bundles have the same length, the value of models_count.
C19_PrefixBundles ==
    (mode = "batch" /\ pc = "split" /\ split_index > 1) =>
        /\ ModelsProcessed = SubSeq(models, 1, models_count)
        /\ Len(total_votes) = nrows
        /\ \A r \in DOMAIN total_votes :
               /\ Len(total_votes[r]) = models_count
               /\ total_votes[r] = [k \in 1..models_count |-> Predict(models[k], r)]

C19_Witness ==
    /\ mode = "batch"
    /\ pc = "split"
    /\ Len(models) = 3
    /\ max_models = 1
    /\ split_index = 3
    /\ models_count = 2
    /\ nrows = 2
    /\ \A r \in 1..2 : total_votes[r] = <<Predict(1, r), Predict(2, r)>>
    /\ total_votes[1] # total_votes[2]

\* the models of the groups 1..g
GroupsUpTo(g) == Range(Flatten(SubSeq(models_splits, 1, Min(g, Len(models_splits)))))

\* C20: a batch run takes the groups strictly in order: no model of a later
\* group is checkpointed, retrieved or scored while the running bundles lack
\* the votes of an earlier group; within a group the models are checkpointed
\* and scored in list order; no combined record is written before the votes
\* of the last group are merged.
C20_StrictOrder ==
    mode = "batch" =>
        /\ (scored \cup ckpt_seen \cup Range(complete_models)) \subseteq GroupsUpTo(split_index)
        /\ Len(total_votes) = (IF split_index > 1 THEN nrows ELSE 0)
        /\ \A r \in DOMAIN total_votes : Len(total_votes[r]) = Len(ModelsProcessed)
        /\ pc = "checkpoint" =>
               ckpt_seen \cap Range(Group) = {Group[k] : k \in 1..(model_index - 1)}
        /\ pc \in {"batch_predict", "batch_row"} =>
               /\ (scored \cap Range(Group)) \subseteq
                      {Group[k] : k \in 1..Min(model_index, Len(Group))}
               /\ \A k \in 1..(model_index - 1) :
                      Group[k] \in files /\ Len(content[Group[k]]) = nrows
        /\ pc \in {"combine", "done"} => split_index = Len(models_splits) + 1
        /\ output # <<>> => pc \in {"combine", "done"}

C20_Witness ==
    /\ mode = "batch"
    /\ pc = "batch_row"
    /\ models_splits = <<<<1, 2>>, <<3>>>>
    /\ split_index = 2
    /\ scored = {1, 2, 3}
    /\ nrows = 2
    /\ Len(content[3]) = 1
    /\ \A r \in 1..2 : Len(total_votes[r]) = 2
    /\ output = <<>>

\* some scoring of the run raises an error
FailureAhead == \E p \in failing : p[1] \in Range(models) /\ p[2] <= nrows

\* C17: a scoring failure aborts the run and no row is skipped: the i-th
\* prediction of every model's file and the i-th record of the output are
\* those of the i-th row, none of them past a failing row; the votes of a
\* group are read only from files that cover all the rows; a run that met a
\* scoring failure stops there, and in batch mode it has written no combined
\* record.
C17_ScoringFailureAborts ==
    /\ \A m \in Range(models) : \A i \in DOMAIN content[m] :
           content[m][i] = Predict(m, i) /\ ~ScoringFails(m, i)
    /\ \A i \in DOMAIN output :
           /\ output[i] = Combine(OnePassBundle(i))
           /\ \A m \in Range(models) : ~ScoringFails(m, i)
    /\ (mode = "batch" /\ pc \in {"batch_votes", "count", "merge"}) =>
           \A m \in Range(Group) : Len(content[m]) = nrows
    /\ (mode = "batch" /\ pc \in {"count", "merge"}) =>
           /\ Len(votes) = nrows
           /\ \A r \in DOMAIN votes : Len(votes[r]) = Len(Group)
    /\ pc = "failed" => FailureAhead
    /\ (pc = "failed" /\ mode = "batch") => output = <<>>
    /\ FailureAhead => pc # "done"
    /\ (FailureAhead /\ mode = "batch") => (pc # "combine" /\ output = <<>>)

C17_Witness ==
    /\ mode = "batch"
    /\ pc = "failed"
    /\ failing = {<<3, 2>>}
    /\ models_splits = <<<<1, 2>>, <<3>>>>
    /\ split_index = 2
    /\ nrows = 2
    /\ Len(content[1]) = 2
    /\ Len(content[2]) = 2
    /\ content[3] = <<Predict(3, 1)>>
    /\ \A r \in 1..2 : Len(total_votes[r]) = 2
    /\ output = <<>>

\* the model's field names other than the objective field
Expected == {fields[c] : c \in DOMAIN fields \ {objective_field}}

\* the columns of the test file (counted from 0) whose name is not expected
ExcludedCols == {i \in 0..(Len(file_header) - 1) : file_header[i + 1] \notin Expected}

\* the elements of seq at the columns that are not excluded, in their order
Kept(seq) ==
    LET idx == {i \in DOMAIN seq : (i - 1) \notin ExcludedCols}
    IN  [k \in 1..Cardinality(idx) |->
            seq[CHOOSE i \in idx : Cardinality({j \in idx : j <= i}) = k]]

\* C13: with a header, the excluded indices are exactly the columns whose
\* name is not a field name of the model other than the objective field;
\* they are held in descending order and stay the same for the whole run;
\* the header list of a run that goes on and every processed row hold
\* exactly the columns that are not excluded, in their original order.
C13_ExcludedColumns ==
    (test_set_header /\ pc # "idle") =>
        /\ Len(exclude) = Cardinality(ExcludedCols)
        /\ Range(exclude) = ExcludedCols
        /\ \A k \in 1..(Len(exclude) - 1) : exclude[k] > exclude[k + 1]
        /\ pc # "raised" => headers = Kept(file_header)
        /\ \A r \in DOMAIN processed : processed[r] = Kept(test_rows[r])

C13_Witness ==
    /\ test_set_header
    /\ pc = "done"
    /\ fields = <<"a", "b", "y">>
    /\ objective_field = 3
    /\ file_header = <<"x", "a", "y">>
    /\ exclude = <<2, 0>>
    /\ headers = <<"a">>
    /\ test_rows = <<<<1, 2, 3>>, <<1, 2, 3>>>>
    /\ processed = <<<<2>>, <<2>>>>

\* the expected fields that no column of the test file is named after
Missing == Expected \ Range(file_header)

\* C14 as stated: the warning is printed exactly when some but not all of
\* the expected fields are missing from the header.
C14_Original ==
    (test_set_header /\ pc # "idle") =>
        (warned <=> (Missing # {} /\ Missing # Expected))

\* C14, amended: the warning is printed exactly when the header has a column
\* that is not an expected field and a column that is one; expected fields
\* that are missing from the header do not by themselves bring a warning,
\* and a header with every expected field and one more column does.
C14_WarningOnUnusedColumns ==
    (test_set_header /\ pc # "idle") =>
        /\ warned <=> (ExcludedCols # {} /\ Cardinality(ExcludedCols) < Len(file_header))
        /\ (Missing # {} /\ ExcludedCols = {}) => ~warned
        /\ warned => pc # "raised"

C14_Witness ==
    /\ test_set_header
    /\ pc = "rows"
    /\ fields = <<"a", "b", "y">>
    /\ objective_field = 3
    /\ file_header = <<"a", "b", "x">>
    /\ Missing = {}
    /\ warned

\* C15: with a header, predict raises its fatal error, before any row is
\* processed, exactly when no column of the test file is named after an
\* expected field, the empty header row included; with a matching column the
\* run goes on.
C15_FatalOnNoMatch ==
    (test_set_header /\ pc # "idle") =>
        /\ pc = "raised" <=> (\A i \in DOMAIN file_header : file_header[i] \notin Expected)
        /\ pc = "raised" => processed = <<>>

\* C21: within a batch run the running bundles are changed by the
\* accumulation step only: every other step (checkpoint, retrieval, scoring,
\* reading of the votes, progress report, combine and write) leaves them as
\* they are, and the accumulation step appends the votes of the group to the
\* bundles and changes nothing else but the position of the group loop.
C21_BundleFrame ==
    [][(mode = "batch" /\ mode' = "batch") =>
          /\ pc # "merge" => total_votes' = total_votes
          /\ (pc = "merge" /\ pc' = "split") =>
                 /\ total_votes' = (IF total_votes = <<>> THEN votes
                                    ELSE [r \in DOMAIN total_votes |->
                                              total_votes[r] \o votes[r]])
                 /\ split_index' = split_index + 1
                 /\ UNCHANGED <<args, session, schema, disk, history, mode, resume,
                                number_of_tests, reader_pos, models_splits,
                                input_data_list, votes, models_count, model_index,
                                complete_models, predictions_files, progress,
                                output>>]_vars

C21_Witness ==
    /\ mode = "batch"
    /\ pc = "combine"
    /\ Len(models_splits) = 2
    /\ nrows = 2
    /\ Len(output) = 1
    /\ \A r \in 1..2 : total_votes[r] = OnePassBundle(r)
    /\ \A r \in 1..2 : Len(votes[r]) < Len(total_votes[r])

\* C22: in a batch run the scorer is built from the retrieved models of the
\* current group only: it never holds more than max_models models, whatever
\* the number of models, and while a group is scored it holds no model of an
\* earlier group.
C22_ResidentModels ==
    mode = "batch" =>
        /\ Len(complete_models) <= max_models
        /\ pc \in {"batch_predict", "batch_row", "batch_votes", "count", "merge"} =>
               /\ complete_models = Group
               /\ Range(complete_models) \cap Range(ModelsProcessed) = {}

C22_Witness ==
    /\ mode = "batch"
    /\ pc = "batch_row"
    /\ Len(models) = 3
    /\ max_models = 1
    /\ split_index = 3
    /\ complete_models = <<3>>
    /\ scored = {1, 2, 3}

\* C23: without a header the exclusion list is empty, there is neither a
\* warning nor a fatal schema error, no header name is held, and every row
\* is handed on with all its columns, so that they are paired by position.
C23_NoHeader ==
    (~test_set_header /\ pc # "idle") =>
        /\ exclude = <<>>
        /\ headers = <<>>
        /\ ~warned
        /\ pc \in {"rows", "done"}
        /\ Len(processed) = reader_pos
        /\ \A r \in DOMAIN processed : processed[r] = test_rows[r]

C23_Witness ==
    /\ ~test_set_header
    /\ pc = "done"
    /\ test_rows = <<<<1, 2, 3>>, <<1, 2>>>>
    /\ processed = test_rows
    /\ exclude = <<>>

\* C24: an invocation of main whose arguments hold --resume appends nothing
\* to the command log, any other invocation appends exactly one line, its
\* own command; so no line of the log is a resume call and the command a
\* resume call replays is never one.
C24_ResumeNotLogged ==
    [][invocations' = invocations + 1 =>
          LET a == last_args'
              cleared == IF a.clear_logs THEN <<>> ELSE command_log
          IN  /\ a.resume => command_log' = cleared
              /\ ~a.resume => command_log' = Append(cleared, a)
              /\ \A i \in DOMAIN command_log' : ~command_log'[i].resume
              /\ ~replayed'.resume
              /\ (a.resume /\ replayed' # NoCommand) =>
                     \E i \in DOMAIN command_log : replayed' = command_log[i]]_vars

C24_Witness ==
    /\ invocations = 3
    /\ last_args.resume
    /\ Len(command_log) = 2
    /\ last_args.stack_level = 1
    /\ replayed = command_log[1]
    /\ replayed.n = 1

\* C25: with a log file and clear_logs set, compute_output empties the log
\* file, then opens it for appending, and the run goes on.
C25_ClearLog ==
    (log_file /\ clear_logs /\ stage # "idle") =>
        /\ stage # "type_error"
        /\ stage = "source" => (log = "open" /\ log_lines = 0)

\* C26: in a remote run over two models or more, every prediction file the
\* run writes holds one prediction per data row of the test file: the later
\* models are scored on the rows the first one was scored on.
C26_RemoteRows ==
    (mode = "remote" /\ pc = "done" /\ Len(models) >= 2) =>
        \A m \in scored : content[m] = [r \in 1..nrows |-> Predict(m, r)]

\* the entries of a list are of distinct models
OnePerModel(list) ==
    \A j, k \in DOMAIN list : j # k => list[j][2] # list[k][2]

\* C27: once the models are created, model_ids and models hold one entry
\* per model and as many entries as models were requested, also on a resumed
\* run that found some of the models: no model is entered twice, model_ids
\* holds ids only and models does not hold ids next to model objects.
C27_ModelLists ==
    stage \in {"retrieve", "predict", "evaluate", "close", "end"} =>
        /\ Len(model_ids) = requested
        /\ Len(models_list) = requested
        /\ OnePerModel(model_ids)
        /\ OnePerModel(models_list)
        /\ \A k \in DOMAIN model_ids : model_ids[k][1] = "id"
        /\ \A j, k \in DOMAIN models_list : models_list[j][1] = models_list[k][1]


\* C28: within one run the resume flag is monotone, it never changes from
\* FALSE to TRUE; once the checkpoint of a stage has failed the flag is FALSE,
\* no later stage consults a checkpoint and no resource is taken from the
\* earlier run
C28_ResumeMonotone ==
    [][/\ ~resuming => ~resuming'
       /\ failed_stages' # {} => ~resuming'
       /\ failed_stages # {} => /\ consulted' = consulted
                                /\ taken' = taken
                                /\ failed_stages' = failed_stages]_vars

\* the checkpoint of the dataset failed after the source was found: the
\* models and the evaluation were created without consulting a checkpoint
C28_Witness ==
    /\ stage = "end"
    /\ evaluate
    /\ consulted = <<"source", "dataset">>
    /\ failed_stages = {"dataset"}
    /\ taken = {"source"}
    /\ models_found > 0
    /\ evaluation_found
    /\ creates["evaluation"] = 1

\* C29: a resumed run in which every checkpoint succeeds (the source, the
\* dataset, all the requested models and, when evaluating, the evaluation are
\* found) issues no create_source, create_dataset, create_model or
\* create_evaluation call
C29_NoCreateOnFullResume ==
    (/\ source_found
     /\ dataset_found
     /\ models_found = requested
     /\ evaluate => evaluation_found)
        => /\ \A k \in Kinds : creates[k] = 0
           /\ failed_stages = {}
           /\ stage \notin {"idle", "type_error", "source"} => resuming

\* a resumed evaluation run that ended having consulted the four checkpoints
\* and taken the four resources
C29_Witness ==
    /\ stage = "end"
    /\ evaluate
    /\ resuming
    /\ consulted = <<"source", "dataset", "model", "evaluation">>
    /\ taken = {"source", "dataset", "model", "evaluation"}
    /\ Len(model_ids) = requested
    /\ requested > 1
    /\ \A k \in Kinds : creates[k] = 0

\* the models created by this run that are not finished yet
Unfinished == {m \in DOMAIN model_status : model_status[m] = "unfinished"}

\* C30: while the models are created with max_parallel_models = P >= 1 and
\* finish at arbitrary times, the number of models created by this run that
\* are not finished yet never exceeds P
C30_ParallelBound == Cardinality(Unfinished) <= max_parallel_models

\* more models than P were created and P of them are still unfinished: the
\* one before the last was awaited
C30_Witness ==
    /\ stage = "create"
    /\ creates["model"] > max_parallel_models
    /\ Cardinality(Unfinished) = max_parallel_models
    /\ max_parallel_models > 1

\* C31: over any sequence of invocations of main, the ones that fail during
\* argument parsing and the ones with --clear-logs included, the command log
\* and the directory stack hold the same number of entries and their k-th
\* most recent entries belong to the same invocation
C31_LogsPaired ==
    /\ Len(command_log) = Len(directory_log)
    /\ \A k \in DOMAIN command_log : command_log[k].n = directory_log[k]

\* the ids the tag options from the i-th on add, in the order of main
RECURSIVE TaggedFrom(_)
TaggedFrom(i) ==
    IF i > Len(TagOptions) THEN <<>>
    ELSE (IF TagOptions[i] \in tag_options THEN TagIds(TagOptions[i]) ELSE <<>>)
             \o TaggedFrom(i + 1)

\* the complete delete list of the invocation: the ids of --delete-list, the
\* lines of the delete file, the ids every tag option given lists
CompleteList ==
    delete_list_arg \o (IF delete_file = "present" THEN <<"filed">> ELSE <<>>)
        \o TaggedFrom(1)

\* C32: in delete mode main never calls compute_output; the remote deletion
\* is issued once, only after the complete delete list has been assembled;
\* if the delete file given does not exist the run fails before any resource
\* is deleted
C32_DeleteMode ==
    /\ delete_option => output_calls = 0
    /\ delete_calls <= 1
    /\ delete_calls = 0 => deleted = {}
    /\ delete_calls = 1 => /\ position = "end"
                           /\ delete_list = CompleteList
                           /\ deleted = Range(CompleteList)
    /\ (delete_option /\ delete_file = "missing")
           => /\ delete_calls = 0
              /\ deleted = {}
              /\ position \in {"parsed", "list", "file", "raised"}

\* a delete run with data given as well: the list came from --delete-list,
\* the delete file and the tags, and was deleted in one call
C32_Witness ==
    /\ delete_option
    /\ data_given
    /\ position = "end"
    /\ delete_calls = 1
    /\ output_calls = 0
    /\ delete_list_arg # <<>>
    /\ delete_file = "present"
    /\ Len(delete_list) > 3
    /\ deleted = Range(delete_list)

====
